---- MODULE Spec2Model ----
(***************************************************************************)
(* A model of clearbooks.py: the Session context manager, the export       *)
(* fetch _get_export, the chunked timesheet fetch get_timesheets and the   *)
(* pure helpers _check_date_order, _get_hours and _get_hours_per_day.      *)
(*                                                                         *)
(* Calendar dates that take part in arithmetic (from_, to, step) are       *)
(* proleptic Gregorian ordinals, as datetime.date.toordinal() gives them;  *)
(* a timedelta is a number of days.  Durations returned by _get_hours are  *)
(* exact numbers of minutes (hours * 60), so 30.5 hours is 1830 and a      *)
(* working day of 7.5 hours is 450.                                        *)
(***************************************************************************)
EXTENDS Integers, Sequences, FiniteSets, TLC

VARIABLES
    pc,          \* position of the one call in progress
    call,        \* the arguments the caller passed
    from_,       \* get_timesheets / _get_export local from_ (the chunk cursor)
    to,          \* local to, after the date.today() default
    conn,        \* Session._session, the requests.Session: none / open / closed
    auth,        \* TRUE once the login POST was accepted
    logins,      \* number of login POSTs issued
    inflight,    \* the request waiting for its response, or NoRequest
    sent,        \* the timesheet GETs issued so far, in order
    dataframes,  \* get_timesheets local list of sub-tables
    response,    \* _get_export local response
    result,      \* the table returned to the caller, or NoTable
    warned,      \* logger.warning about days booked was emitted
    error,       \* the exception that reached the caller, or None
    cause        \* <<stage, exception>> of the first failure of the call

vars == <<pc, call, from_, to, conn, auth, logins, inflight, sent,
          dataframes, response, result, warned, error, cause>>

None == "None"

(***************************************************************************)
(* Bounds of the model.                                                    *)
(***************************************************************************)
\* from_ and to range over MaxSpan + 1 consecutive days
MaxSpan == 4
\* step ranges over 0 .. MaxStep days (and ONE_YEAR)
MaxStep == 2
\* a non-empty export body carries 1 .. MaxExportRows data lines
MaxExportRows == 2

(***************************************************************************)
(* Module constants.                                                       *)
(***************************************************************************)
ONE_YEAR == 365

CB_DOMAIN == "https://secure.clearbooks.co.uk/"
LOGIN_URL == "https://secure.clearbooks.co.uk/account/action/login/"
LOGIN_FORM == "https://secure.clearbooks.co.uk/account/action/login/cb"
REPORT_URL == "https://secure.clearbooks.co.uk/springboardproltd/accounting/reports/export-csv/"
TIMESHEET_URL == "https://secure.clearbooks.co.uk/springboardproltd/accounting/timetracking/view/"
HOMEPAGE == "https://secure.clearbooks.co.uk/springboardproltd/accounting/home/dashboard"

BILL_COL_NAMES ==
    <<"clearbooks_id", "prefix", "number", "accounting_date", "reference",
      "po_reference", "transaction_id", "invoice_date", "invoice_due",
      "description", "company_name", "net", "vat", "gross", "status",
      "project_name", "outstanding", "mc_net", "mc_vat", "mc_gross",
      "currency_id", "formatted_invoice_number", "amount_credited",
      "currency_code">>

TRANS_COL_NAMES ==
    <<"id", "description", "entity_id", "accounting_date", "vat_return_id",
      "ptype", "account", "amount", "payment_id",
      "bank_date", "purchase_id", "sales_id", "entity_name", "account_name",
      "account_code", "vat_return_name", "mc_amount", "fxrate",
      "transaction_project", "project", "invoice_line_description">>

INVOICE_COL_NAMES ==
    <<"invoice_num", "prefix", "accounting_date", "reference",
      "transaction_id", "invoice_date", "invoice_due", "description",
      "company_name", "net", "vat", "gross", "status", "project_name",
      "outstanding", "mc_net", "mc_vat", "mc_gross", "currency_id",
      "formatted_invoice_number", "amount_credited", "currency_code">>

PO_COL_NAMES ==
    <<"clearbooks_id", "prefix", "accounting_date", "reference", "invoice_date",
      "description", "company_name", "net", "vat", "gross", "status",
      "project_name">>

\* _get_export: col_mapping
col_mapping ==
    [ POS          |-> PO_COL_NAMES,
      SALES        |-> INVOICE_COL_NAMES,
      PURCHASES    |-> BILL_COL_NAMES,
      TRANSACTIONS |-> TRANS_COL_NAMES ]

\* HOURS_PER_DAY_DICT in insertion order; hours are in minutes (8 h, 7.5 h)
HOURS_PER_DAY_DICT ==
    << [date |-> <<2014, 1, 1>>, hours |-> 480],
       [date |-> <<2022, 4, 1>>, hours |-> 450] >>

(***************************************************************************)
(* datetime.date                                                           *)
(***************************************************************************)
IsLeap(y) == (y % 4 = 0) /\ ((y % 100 # 0) \/ (y % 400 = 0))

DaysBeforeMonth(y, m) ==
    <<0, 31, 59, 90, 120, 151, 181, 212, 243, 273, 304, 334>>[m]
    + (IF m > 2 /\ IsLeap(y) THEN 1 ELSE 0)

\* date(y, m, d).toordinal()
Ordinal(y, m, d) ==
    (y - 1) * 365 + ((y - 1) \div 4) - ((y - 1) \div 100) + ((y - 1) \div 400)
    + DaysBeforeMonth(y, m) + d

\* pd.Timestamp(date) <= dt, both as <<year, month, day>>
NotLater(a, b) == Ordinal(a[1], a[2], a[3]) <= Ordinal(b[1], b[2], b[3])

(***************************************************************************)
(* Tables (pandas.DataFrame): an ordered column list and the rows, each    *)
(* row a function from column name to cell.                                *)
(***************************************************************************)
SeqRange(s) == {s[i] : i \in DOMAIN s}

NaN == <<"NaN">>

\* pd.DataFrame()
EmptyFrame == [columns |-> <<>>, rows |-> <<>>]

NoTable == [columns |-> <<"None">>, rows |-> <<>>]

RECURSIVE AppendNew(_, _)
\* the columns of cols followed by those of more that cols does not hold
AppendNew(cols, more) ==
    IF more = <<>> THEN cols
    ELSE AppendNew(IF Head(more) \in SeqRange(cols) THEN cols
                   ELSE Append(cols, Head(more)),
                   Tail(more))

Reindex(row, cols) ==
    [c \in SeqRange(cols) |-> IF c \in DOMAIN row THEN row[c] ELSE NaN]

RECURSIVE ConcatColumns(_)
ConcatColumns(frames) ==
    IF frames = <<>> THEN <<>>
    ELSE AppendNew(Head(frames).columns, ConcatColumns(Tail(frames)))

RECURSIVE ConcatRows(_)
ConcatRows(frames) ==
    IF frames = <<>> THEN <<>>
    ELSE Head(frames).rows \o ConcatRows(Tail(frames))

\* pd.concat(frames) for a non-empty list: outer join of the columns
Concat(frames) ==
    LET cols == ConcatColumns(frames)
        rows == ConcatRows(frames)
    IN  [columns |-> cols,
         rows    |-> [i \in DOMAIN rows |-> Reindex(rows[i], cols)]]

(***************************************************************************)
(* Pure helpers.                                                           *)
(***************************************************************************)
\* _check_date_order with the comparison from_ >= to
check_date_order_strict(f, t) == ~(f >= t)

\* _check_date_order: TRUE when it returns True, FALSE when it raises ValueError
check_date_order(f, t) == ~(f > t)

RECURSIVE LatestStart(_, _, _)
\* the loop of _get_hours_per_day: the last key, in iteration order, not later than dt
LatestStart(dict, dt, latest) ==
    IF dict = <<>> THEN latest
    ELSE LatestStart(Tail(dict), dt,
                     IF NotLater(Head(dict).date, dt) THEN Head(dict) ELSE latest)

NoEntry == [date |-> <<0, 0, 0>>, hours |-> 0]

\* _get_hours_per_day(dt): minutes per working day, or None for the ValueError
get_hours_per_day(dt) ==
    LET latest == LatestStart(HOURS_PER_DAY_DICT, dt, NoEntry)
    IN  IF latest = NoEntry THEN None ELSE latest.hours

\* what _get_hours would be if it consulted HOURS_PER_DAY_DICT
get_hours_working_day(times) ==
    [i \in DOMAIN times.rows |->
        times.rows[i]["Days"] * get_hours_per_day(times.rows[i]["Datetime"].date)
        + times.rows[i]["Hours"] * 60 + times.rows[i]["Minutes"]]

\* _get_hours(times): Days * 24 + Hours + Minutes / 60 per row, in minutes
get_hours(times) ==
    [i \in DOMAIN times.rows |->
        times.rows[i]["Days"] * 24 * 60
        + times.rows[i]["Hours"] * 60 + times.rows[i]["Minutes"]]

\* pd.PeriodIndex(..., freq='Q-MAR'): the financial year ENDING in March
Quarter(dt) ==
    LET y == dt.date[1]
        m == dt.date[2]
    IN  IF m >= 4 THEN [year |-> y + 1, quarter |-> ((m - 4) \div 3) + 1]
        ELSE [year |-> y, quarter |-> 4]

(***************************************************************************)
(* CSV bodies.  A body is the sequence of its lines, each line the         *)
(* sequence of its cells; the empty body is <<>>.  Text cells are          *)
(* sequences of characters, a date cell is <<year, month, day>>, a time    *)
(* cell <<hour, minute>>.                                                  *)
(***************************************************************************)
TIMESHEET_CSV_HEADER ==
    <<"Date", "Time", "Employee", "Client", "Project", "Task", "Comment",
      "Billed", "Days", "Hours", "Minutes">>

\* the object columns of the timesheet table
TEXT_COLUMNS == {"Employee", "Client", "Project", "Task", "Comment", "Billed"}

RECURSIVE Without(_, _)
Without(cols, drop) ==
    IF cols = <<>> THEN <<>>
    ELSE IF Head(cols) \in drop THEN Without(Tail(cols), drop)
         ELSE <<Head(cols)>> \o Without(Tail(cols), drop)

IndexOf(cols, c) == CHOOSE i \in DOMAIN cols : cols[i] = c

\* pd.read_csv(StringIO(text), parse_dates={'Datetime': ['Date', 'Time']})
ReadTimesheetCsv(text) ==
    LET header == Head(text)
        cols   == <<"Datetime">> \o Without(header, {"Date", "Time"})
        lines  == Tail(text)
        Row(line) ==
            [c \in SeqRange(cols) |->
                IF c = "Datetime"
                THEN [date |-> line[IndexOf(header, "Date")],
                      time |-> line[IndexOf(header, "Time")]]
                ELSE line[IndexOf(header, c)]]
    IN  [columns |-> cols, rows |-> [i \in DOMAIN lines |-> Row(lines[i])]]

\* pd.read_csv(StringIO(text), parse_dates=parse_dates): the header line names
\* the columns; cells are kept as read (parse_dates changes no column name)
ReadCsv(text) == [columns |-> Head(text), rows |-> Tail(text)]

\* re.sub('^_', '.', cell)
ReplaceCell(cell) ==
    IF cell # <<>> /\ Head(cell) = "_" THEN <<".">> \o Tail(cell) ELSE cell

\* times.replace('^_', '.', regex=True, inplace=True)
Replace(times) ==
    [columns |-> times.columns,
     rows    |-> [i \in DOMAIN times.rows |->
                    [c \in DOMAIN times.rows[i] |->
                        IF c \in TEXT_COLUMNS THEN ReplaceCell(times.rows[i][c])
                        ELSE times.rows[i][c]]]]

\* times[name] = values
WithColumn(times, name, values) ==
    [columns |-> AppendNew(times.columns, <<name>>),
     rows    |-> [i \in DOMAIN times.rows |->
                    [c \in DOMAIN times.rows[i] \cup {name} |->
                        IF c = name THEN values[i] ELSE times.rows[i][c]]]]

(***************************************************************************)
(* What the caller and the remote service may supply.                      *)
(***************************************************************************)
\* CB_START_DATE = date(2014, 1, 1), the default from_
CB_START_DATE == Ordinal(2014, 1, 1)

Days == {CB_START_DATE + i : i \in 0 .. MaxSpan}

\* <<from_, to, step>> of the get_timesheets calls: every short range with every
\* short step, the default step on a short range, and a range longer than a year
TimesheetCalls ==
    {<<f, t, s>> : f \in Days, t \in Days, s \in 0 .. MaxStep}
    \cup {<<CB_START_DATE, CB_START_DATE + MaxSpan, ONE_YEAR>>,
          <<Ordinal(2021, 1, 1), Ordinal(2022, 6, 1), ONE_YEAR>>}

\* the four kinds of col_mapping and one that is not a key of it
ExportTypes == {"POS", "SALES", "PURCHASES", "TRANSACTIONS", "TIMESHEETS"}

NoCall == [name |-> None, export_type |-> None, from_ |-> 0, to |-> 0, step |-> 0]

NoRequest == [method |-> None, url |-> None, from_ |-> 0, to |-> 0]

NoResponse == [kind |-> None, ok |-> FALSE, text |-> <<>>]

\* the login POST: no response at all, or a status and the URL it landed on
LoginReplies ==
    {[kind |-> "timeout", ok |-> FALSE, url |-> LOGIN_FORM]}
    \cup {[kind |-> "response", ok |-> o, url |-> u] :
            o \in BOOLEAN, u \in {LOGIN_URL, HOMEPAGE}}

TimesheetLine(date, project, days, hours, minutes) ==
    <<date, <<9, 0>>, <<"A", "n", "n">>, <<"C">>, project, <<"T">>, <<"c">>,
      <<"N">>, days, hours, minutes>>

\* the rows of Test_GetHours, the second booked on an underscore project
TimesheetLines ==
    << TimesheetLine(<<2015, 1, 1>>, <<"P">>, 0, 5, 15),
       TimesheetLine(<<2015, 1, 1>>, <<"_", "I">>, 1, 6, 30),
       TimesheetLine(<<2022, 5, 5>>, <<"P", "_">>, 2, 7, 45) >>

TimesheetBodies ==
    {<<>>}
    \cup {<<TIMESHEET_CSV_HEADER, TimesheetLines[i]>> : i \in DOMAIN TimesheetLines}
    \cup {<<TIMESHEET_CSV_HEADER, TimesheetLines[1], TimesheetLines[3]>>}

TimesheetReplies ==
    {[kind |-> "timeout", ok |-> FALSE, text |-> <<>>],
     [kind |-> "response", ok |-> FALSE, text |-> <<>>]}
    \cup {[kind |-> "response", ok |-> TRUE, text |-> b] : b \in TimesheetBodies}

\* the header line the remote CSV of a kind may carry: the listed columns, or
\* the listed columns and one more (test_invoices: 23 columns, 22 listed)
RemoteHeaders(export_type) ==
    {col_mapping[export_type], Append(col_mapping[export_type], "unlisted")}

ExportLine(header) == [i \in DOMAIN header |-> "v"]

ExportBodies(export_type) ==
    {<<>>}
    \cup {<<h>> \o [i \in 1 .. n |-> ExportLine(h)] :
            h \in RemoteHeaders(export_type), n \in 1 .. MaxExportRows}

ExportReplies(export_type) ==
    {[kind |-> "timeout", ok |-> FALSE, text |-> <<>>]}
    \cup {[kind |-> "response", ok |-> o, text |-> b] :
            o \in BOOLEAN, b \in ExportBodies(export_type)}

(***************************************************************************)
(* Session                                                                 *)
(***************************************************************************)
\* a Session.__exit__ that does not reach requests.Session.__exit__
Session__exit__leak(c) == c

\* Session.__exit__: requests.Session.__exit__ closes the connection (and
\* returns None, so an exception of the with body propagates)
Session__exit__(c) == "closed"

\* the exception lines 80-86 raise for a login reply, or None
LoginFailure(reply) ==
    IF reply.kind = "timeout" THEN "RequestException"
    ELSE IF ~reply.ok THEN "HTTPError"
    ELSE IF reply.url = LOGIN_URL THEN "ValueError"
    ELSE None

\* Session.__enter__ up to the login POST being issued
SessionEnter ==
    /\ pc = "enter"
    /\ \E has_user \in BOOLEAN, has_password \in BOOLEAN :
         IF has_user /\ has_password
         THEN /\ conn' = "open"
              /\ inflight' = [method |-> "POST", url |-> LOGIN_FORM,
                              from_ |-> 0, to |-> 0]
              /\ logins' = logins + 1
              /\ pc' = "login"
              /\ UNCHANGED <<error, cause>>
         ELSE /\ pc' = "raised"
              /\ error' = "KeyError"
              /\ cause' = <<"credentials", "KeyError">>
              /\ UNCHANGED <<conn, inflight, logins>>
    /\ UNCHANGED <<call, from_, to, auth, sent, dataframes, response, result,
                   warned>>

\* Session.__enter__ from the login response on.  On a failure the handler
\* evaluates sys.exec_info, which sys does not have: AttributeError leaves
\* __enter__ before self.__exit__ is called.
SessionLogin ==
    /\ pc = "login"
    /\ \E reply \in LoginReplies :
         LET exc == LoginFailure(reply)
         IN  IF exc = None
             THEN /\ auth' = TRUE
                  /\ pc' = IF call.name = "get_timesheets" THEN "loop" ELSE "post"
                  /\ UNCHANGED <<error, cause>>
             ELSE /\ pc' = "raised"
                  /\ error' = "AttributeError"
                  /\ cause' = <<"login", exc>>
                  /\ UNCHANGED auth
    /\ inflight' = NoRequest
    /\ UNCHANGED <<call, from_, to, conn, logins, sent, dataframes, response,
                   result, warned>>

(***************************************************************************)
(* get_timesheets                                                          *)
(***************************************************************************)
\* get_timesheets without chunking: the whole range in one request
ChunkEndWhole(f, t, s) == t

\* end_date = to if to <= target_end_date else target_end_date
ChunkEnd(f, t, s) == IF t <= f + s THEN t ELSE f + s

\* the next from_ without the extra day
NextFromSameDay(f, s) == f + s

\* from_ = from_ + step + timedelta(days=1)
NextFrom(f, s) == f + s + 1

\* get_timesheets up to the with statement; to is the argument or, when that
\* is None, date.today(): a date either way
get_timesheets ==
    /\ pc = "idle"
    /\ \E c \in TimesheetCalls :
         /\ call' = [name |-> "get_timesheets", export_type |-> None,
                     from_ |-> c[1], to |-> c[2], step |-> c[3]]
         /\ from_' = c[1]
         /\ to' = c[2]
         /\ IF check_date_order(c[1], c[2])
            THEN /\ pc' = "enter"
                 /\ UNCHANGED <<error, cause>>
            ELSE /\ pc' = "raised"
                 /\ error' = "ValueError"
                 /\ cause' = <<"validate", "ValueError">>
    /\ UNCHANGED <<conn, auth, logins, inflight, sent, dataframes, response,
                   result, warned>>

\* one turn of the while loop up to the GET of _get_timesheet being issued; the
\* request carries the two dates (as DD/MM/YYYY text in the code)
TimesheetRequest ==
    /\ pc = "loop"
    /\ from_ <= to
    /\ LET end_date == ChunkEnd(from_, to, call.step)
       IN  /\ inflight' = [method |-> "GET", url |-> TIMESHEET_URL,
                           from_ |-> from_, to |-> end_date]
           /\ sent' = Append(sent, [from_ |-> from_, to |-> end_date])
    /\ pc' = "get"
    /\ UNCHANGED <<call, from_, to, conn, auth, logins, dataframes, response,
                   result, warned, error, cause>>

\* the exception lines 218-219 raise for a reply, or None
RequestFailure(reply) ==
    IF reply.kind = "timeout" THEN "RequestException"
    ELSE IF ~reply.ok THEN "HTTPError"
    ELSE None

\* the table _get_timesheet returns for a response body
TimesheetFrame(text) ==
    IF text # <<>> THEN ReadTimesheetCsv(text) ELSE EmptyFrame

\* the rest of the turn: the response, the sub-table, the next from_; an
\* exception leaves the with statement through Session.__exit__
TimesheetResponse ==
    /\ pc = "get"
    /\ \E reply \in TimesheetReplies :
         LET exc == RequestFailure(reply)
         IN  IF exc = None
             THEN /\ dataframes' = Append(dataframes, TimesheetFrame(reply.text))
                  /\ from_' = NextFrom(from_, call.step)
                  /\ pc' = "loop"
                  /\ UNCHANGED <<conn, error, cause>>
             ELSE /\ conn' = Session__exit__(conn)
                  /\ pc' = "raised"
                  /\ error' = exc
                  /\ cause' = <<"chunk", exc>>
                  /\ UNCHANGED <<dataframes, from_>>
    /\ inflight' = NoRequest
    /\ UNCHANGED <<call, to, auth, logins, sent, response, result, warned>>

\* the while condition fails: the with statement ends
TimesheetExit ==
    /\ pc = "loop"
    /\ ~(from_ <= to)
    /\ conn' = Session__exit__(conn)
    /\ pc' = "concat"
    /\ UNCHANGED <<call, from_, to, auth, logins, inflight, sent, dataframes,
                   response, result, warned, error, cause>>

\* lines 169-188; times['Days'] raises KeyError when no sub-table has the column
TimesheetFinish ==
    /\ pc = "concat"
    /\ LET times == Replace(Concat(dataframes))
       IN  IF "Days" \in SeqRange(times.columns)
           THEN /\ warned' = (\E i \in DOMAIN times.rows : times.rows[i]["Days"] > 0)
                /\ result' =
                     LET booked == WithColumn(times, "Hours_Booked", get_hours(times))
                     IN  WithColumn(booked, "Quarter",
                            [i \in DOMAIN booked.rows |->
                                Quarter(booked.rows[i]["Datetime"])])
                /\ pc' = "returned"
                /\ UNCHANGED <<error, cause>>
           ELSE /\ pc' = "raised"
                /\ error' = "KeyError"
                /\ cause' = <<"columns", "KeyError">>
                /\ UNCHANGED <<result, warned>>
    /\ UNCHANGED <<call, from_, to, conn, auth, logins, inflight, sent,
                   dataframes, response>>

(***************************************************************************)
(* _get_export                                                             *)
(***************************************************************************)
\* an empty export built as pd.DataFrame()
EmptyExportNoColumns(export_type) == EmptyFrame

\* pd.DataFrame(columns=col_mapping[export_type])
EmptyExport(export_type) == [columns |-> col_mapping[export_type], rows |-> <<>>]

\* _get_export as if read_csv were given names=col_mapping[export_type], header=0
ParseExportNames(export_type, text) ==
    IF text # <<>>
    THEN [columns |-> col_mapping[export_type], rows |-> Tail(text)]
    ELSE EmptyExport(export_type)

\* lines 307-312
ParseExport(export_type, text) ==
    IF text # <<>> THEN ReadCsv(text) ELSE EmptyExport(export_type)

\* _get_export up to the with statement (get_bills, get_transactions,
\* get_invoices and get_purchase_orders pass a key of col_mapping)
get_export ==
    /\ pc = "idle"
    /\ \E k \in ExportTypes, f \in Days, t \in Days :
         /\ call' = [name |-> "_get_export", export_type |-> k,
                     from_ |-> f, to |-> t, step |-> 0]
         /\ from_' = f
         /\ to' = t
         /\ IF k \in DOMAIN col_mapping /\ check_date_order(f, t)
            THEN /\ pc' = "enter"
                 /\ UNCHANGED <<error, cause>>
            ELSE /\ pc' = "raised"
                 /\ error' = "ValueError"
                 /\ cause' = <<"validate", "ValueError">>
    /\ UNCHANGED <<conn, auth, logins, inflight, sent, dataframes, response,
                   result, warned>>

\* session.post(REPORT_URL, params, timeout=TIMEOUT) is issued
ExportRequest ==
    /\ pc = "post"
    /\ inflight' = [method |-> "POST", url |-> REPORT_URL,
                    from_ |-> from_, to |-> to]
    /\ pc' = "posting"
    /\ UNCHANGED <<call, from_, to, conn, auth, logins, sent, dataframes,
                   response, result, warned, error, cause>>

\* the POST returns or raises, and the with statement ends either way
ExportResponse ==
    /\ pc = "posting"
    /\ \E reply \in ExportReplies(call.export_type) :
         IF reply.kind = "timeout"
         THEN /\ pc' = "raised"
              /\ error' = "RequestException"
              /\ cause' = <<"export", "RequestException">>
              /\ UNCHANGED response
         ELSE /\ response' = reply
              /\ pc' = "parse"
              /\ UNCHANGED <<error, cause>>
    /\ conn' = Session__exit__(conn)
    /\ inflight' = NoRequest
    /\ UNCHANGED <<call, from_, to, auth, logins, sent, dataframes, result,
                   warned>>

\* lines 305-312
ExportFinish ==
    /\ pc = "parse"
    /\ IF response.ok
       THEN /\ result' = ParseExport(call.export_type, response.text)
            /\ pc' = "returned"
            /\ UNCHANGED <<error, cause>>
       ELSE /\ pc' = "raised"
            /\ error' = "HTTPError"
            /\ cause' = <<"export", "HTTPError">>
            /\ UNCHANGED result
    /\ UNCHANGED <<call, from_, to, conn, auth, logins, inflight, sent,
                   dataframes, response, warned>>

(***************************************************************************)
(* The specification: one call, from the caller's invocation to its return *)
(* or its exception.                                                       *)
(***************************************************************************)
Init ==
    /\ pc = "idle"
    /\ call = NoCall
    /\ from_ = 0
    /\ to = 0
    /\ conn = "none"
    /\ auth = FALSE
    /\ logins = 0
    /\ inflight = NoRequest
    /\ sent = <<>>
    /\ dataframes = <<>>
    /\ response = NoResponse
    /\ result = NoTable
    /\ warned = FALSE
    /\ error = None
    /\ cause = <<None, None>>

Next ==
    \/ get_timesheets
    \/ get_export
    \/ SessionEnter
    \/ SessionLogin
    \/ TimesheetRequest
    \/ TimesheetResponse
    \/ TimesheetExit
    \/ TimesheetFinish
    \/ ExportRequest
    \/ ExportResponse
    \/ ExportFinish

Spec == Init /\ [][Next]_vars

(***************************************************************************)
(* Properties.                                                             *)
(***************************************************************************)
IsTimesheets == call.name = "get_timesheets"

IsExport == call.name = "_get_export"

\* the while loop of get_timesheets ran to its end
LoopDone ==
    /\ IsTimesheets
    /\ \/ pc \in {"concat", "returned"}
       \/ pc = "raised" /\ cause[1] = "columns"

ExampleCall ==
    /\ IsTimesheets
    /\ call.from_ = Ordinal(2021, 1, 1)
    /\ call.to = Ordinal(2022, 6, 1)
    /\ call.step = 365

\* C1 as stated: every sub-range requested (with a step of a day or more)
\* covers at most step calendar days, and from 2021-01-01 to 2022-06-01 with a
\* step of 365 days the requests are [2021-01-01, 2021-12-31] and then
\* [2022-01-01, 2022-06-01].
C1_ChunkCoversAtMostStepDays ==
    /\ (IsTimesheets /\ call.step >= 1) =>
         \A i \in DOMAIN sent : sent[i].to - sent[i].from_ + 1 <= call.step
    /\ (ExampleCall /\ LoopDone) =>
         sent = << [from_ |-> Ordinal(2021, 1, 1), to |-> Ordinal(2021, 12, 31)],
                   [from_ |-> Ordinal(2022, 1, 1), to |-> Ordinal(2022, 6, 1)] >>

\* C1 amended: the last day of every sub-range requested is at most step days
\* after its first day (the sub-range covers at most step + 1 calendar days),
\* and from 2021-01-01 to 2022-06-01 with a step of 365 days the requests are
\* [2021-01-01, 2022-01-01] and then [2022-01-02, 2022-06-01].
C1_ChunkEndsWithinStep ==
    /\ IsTimesheets =>
         \A i \in DOMAIN sent : sent[i].to - sent[i].from_ <= call.step
    /\ (ExampleCall /\ LoopDone) =>
         sent = << [from_ |-> Ordinal(2021, 1, 1), to |-> Ordinal(2022, 1, 1)],
                   [from_ |-> Ordinal(2022, 1, 2), to |-> Ordinal(2022, 6, 1)] >>

C1_Witness ==
    /\ ExampleCall
    /\ LoopDone
    /\ Len(sent) = 2
    /\ sent[1].to - sent[1].from_ + 1 = 366

Min(a, b) == IF a <= b THEN a ELSE b

\* C2: for from_ <= to and step >= 0 the requests start at from_, each ends at
\* min(to, start + step), each next one starts the day after the one before
\* ends, there are finitely many, and when the loop is over from_ > to, the
\* last request ends at to and every day of the range lies in exactly one.
C2_ChunksCoverRange ==
    (IsTimesheets /\ call.from_ <= call.to /\ call.step >= 0) =>
        /\ sent # <<>> => sent[1].from_ = call.from_
        /\ \A i \in DOMAIN sent :
              /\ sent[i].to = Min(call.to, sent[i].from_ + call.step)
              /\ sent[i].from_ <= sent[i].to
              /\ i < Len(sent) => sent[i + 1].from_ = sent[i].to + 1
        /\ Len(sent) <= call.to - call.from_ + 1
        /\ LoopDone =>
              /\ from_ > to
              /\ sent # <<>>
              /\ sent[Len(sent)].to = call.to
              /\ \A d \in call.from_ .. call.to :
                    Cardinality({i \in DOMAIN sent :
                                    sent[i].from_ <= d /\ d <= sent[i].to}) = 1

C2_Witness ==
    /\ LoopDone
    /\ call.step = 1
    /\ Len(sent) >= 2
    /\ sent[Len(sent)].to - sent[Len(sent)].from_ < call.step

\* C3: when Session.__enter__ fails after the connection was created, the
\* connection is closed when the error reaches the caller, the error is the
\* one that caused the failure, and no session was handed to the with body.
C3_OpenFailureClosesConnection ==
    cause[1] = "login" =>
        /\ pc = "raised"
        /\ conn = "closed"
        /\ error = cause[2]
        /\ ~auth

C5_ValidationBeforeNetwork ==
    /\ call.name # None =>
         LET bad == \/ call.from_ > call.to
                    \/ /\ IsExport
                       /\ call.export_type \notin
                            {"POS", "SALES", "PURCHASES", "TRANSACTIONS"}
         IN  /\ bad => /\ pc = "raised"
                       /\ error = "ValueError"
                       /\ cause[1] = "validate"
                       /\ conn = "none"
                       /\ ~auth
                       /\ logins = 0
                       /\ inflight = NoRequest
                       /\ sent = <<>>
             /\ ~bad => cause[1] # "validate"
    /\ \A f \in Days, t \in Days :
         /\ f <= t => check_date_order(f, t)
         /\ f > t => ~check_date_order(f, t)

C5_Witness ==
    /\ pc = "raised"
    /\ cause[1] = "validate"
    /\ IsTimesheets
    /\ call.from_ > call.to
    /\ conn = "none"

ReturnedTimesheets == IsTimesheets /\ pc = "returned"

C7_HoursBookedWorkingDay ==
    ReturnedTimesheets =>
        \A i \in DOMAIN result.rows :
            LET r == result.rows[i]
            IN  /\ r["Hours_Booked"] =
                     r["Days"] * get_hours_per_day(r["Datetime"].date)
                     + r["Hours"] * 60 + r["Minutes"]
                /\ (r["Datetime"].date = <<2015, 1, 1>> /\ r["Days"] = 1
                    /\ r["Hours"] = 6 /\ r["Minutes"] = 30)
                      => r["Hours_Booked"] = 870
                /\ (r["Datetime"].date = <<2022, 5, 5>> /\ r["Days"] = 2
                    /\ r["Hours"] = 7 /\ r["Minutes"] = 45)
                      => r["Hours_Booked"] = 1365

\* C8: when every chunk request of a get_timesheets call got a successful
\* response, empty bodies included, the call returns a table.
C8_EmptyChunksReturnTable ==
    (IsTimesheets /\ pc \in {"returned", "raised"} /\ sent # <<>>
     /\ Len(dataframes) = Len(sent))
        => /\ pc = "returned"
           /\ error = None
           /\ result # NoTable

\* C9: a successful export response with an empty body makes the call return
\* a table with no rows and the column list of its kind: PO_COL_NAMES for
\* POS, INVOICE_COL_NAMES for SALES, BILL_COL_NAMES for PURCHASES and
\* TRANS_COL_NAMES for TRANSACTIONS.
C9_EmptyExportHasKindColumns ==
    (IsExport /\ pc \in {"returned", "raised"} /\ response.kind = "response"
     /\ response.ok /\ response.text = <<>>)
        => /\ pc = "returned"
           /\ result.rows = <<>>
           /\ call.export_type = "POS" => result.columns = PO_COL_NAMES
           /\ call.export_type = "SALES" => result.columns = INVOICE_COL_NAMES
           /\ call.export_type = "PURCHASES" => result.columns = BILL_COL_NAMES
           /\ call.export_type = "TRANSACTIONS" => result.columns = TRANS_COL_NAMES
           /\ call.export_type \in {"POS", "SALES", "PURCHASES", "TRANSACTIONS"}

C9_Witness ==
    /\ IsExport
    /\ pc = "returned"
    /\ call.export_type = "PURCHASES"
    /\ response.ok
    /\ response.text = <<>>
    /\ result = [columns |-> BILL_COL_NAMES, rows |-> <<>>]

\* C10 as stated: every table an export call returns, for an empty or a
\* non-empty body, has the column list fixed for its kind.
C10_ExportColumnsFixed ==
    (IsExport /\ pc = "returned") =>
        result.columns = col_mapping[call.export_type]

\* C10 amended: the table an export call returns has the column list fixed for
\* its kind when the body is empty, and the header line of the remote CSV
\* when the body is non-empty, with one row per data line; so its columns are
\* the fixed list exactly when the body is empty or its header is that list.
C10_ExportColumnsFromHeader ==
    (IsExport /\ pc = "returned") =>
        /\ response.text = <<>> =>
              /\ result.columns = col_mapping[call.export_type]
              /\ result.rows = <<>>
        /\ response.text # <<>> =>
              /\ result.columns = Head(response.text)
              /\ Len(result.rows) = Len(response.text) - 1
        /\ (result.columns = col_mapping[call.export_type])
              <=> \/ response.text = <<>>
                  \/ Head(response.text) = col_mapping[call.export_type]

C10_Witness ==
    /\ IsExport
    /\ pc = "returned"
    /\ call.export_type = "SALES"
    /\ response.text # <<>>
    /\ Len(result.columns) = 23
    /\ result.columns # INVOICE_COL_NAMES

====
